---- MODULE Spec2Model ----
(***************************************************************************)
(* Place Discovery & Enrichment Layer of newBuzo: the Google Maps service  *)
(* layer (src/src/lib/googleMaps.ts) and the React hooks built on it       *)
(* (src/unnamed/part_002, the module '@/hooks/useGoogleMaps').             *)
(*                                                                         *)
(* JavaScript values are encoded as follows.  A missing / undefined /      *)
(* null string is "", a missing number is 0, a missing array is <<>>:      *)
(* every place the code reads such a field it does so through `x || d` or  *)
(* a truthiness test, under which undefined, "" and 0 behave alike.        *)
(* Coordinates are fixed-point integers in units of 10^-5 degree.          *)
(* calculateDistance (haversine, floating point) and the fields rating,    *)
(* address and coordinates of a Restaurant are copied data that no         *)
(* operation below branches on; they are not carried in the records.       *)
(***************************************************************************)
EXTENDS Integers, Sequences, FiniteSets, TLC

(***************************************************************************)
(* Bounds of the model.                                                    *)
(***************************************************************************)
\* longest photo-candidate sequence handed to getBestRestaurantImage
MaxPhotos == 3

\* <<width, height>> of a photo candidate (0 = zero or missing): zero on
\* either axis, portrait, square, the ratios 1.2, 1.5, 1.67 and 2.0, a ratio
\* beyond 2.0, and pairs of equal area in both orientations
PhotoShapes ==
  { <<0, 0>>, <<0, 3>>, <<3, 0>>, <<2, 3>>, <<3, 2>>, <<5, 6>>, <<6, 5>>,
    <<5, 3>>, <<6, 3>>, <<6, 2>>, <<5, 5>> }

(***************************************************************************)
(* Program constants.                                                      *)
(***************************************************************************)
Placeholder == "/placeholder.svg"
GOOGLE_PLACES_BASE_URL == "https://maps.googleapis.com/maps/api/place"

\* JS `a || b` on strings and on numbers
OrS(a, b) == IF a # "" THEN a ELSE b
OrN(a, b) == IF a # 0 THEN a ELSE b

(***************************************************************************)
(* Photo descriptors.  One record shape holds both provider shapes:        *)
(* legacy photos carry photo_reference/width/height, new-shape photos      *)
(* carry name/widthPx/heightPx/authorAttributions, and the photos of a     *)
(* RestaurantDetails carry photo_reference/width/height/attributions.      *)
(***************************************************************************)
Photo(ref, nm, w, h, wpx, hpx, attrs) ==
  [photo_reference |-> ref, name |-> nm, width |-> w, height |-> h,
   widthPx |-> wpx, heightPx |-> hpx, attributions |-> attrs]

LegacyPhoto(ref, w, h) == Photo(ref, "", w, h, 0, 0, <<>>)
NewPhoto(nm, w, h, attrs) == Photo("", nm, 0, 0, w, h, attrs)

PhotoWidth(p) == OrN(p.width, p.widthPx)
PhotoHeight(p) == OrN(p.height, p.heightPx)

\* String.prototype.startsWith
StartsWith(s, prefix) ==
  Len(s) >= Len(prefix) /\ SubSeq(s, 1, Len(prefix)) = prefix

\* getPlacePhotoUrl(photoReference, maxWidth, maxHeight) under credential key
getPlacePhotoUrl(key, photoReference, maxWidth, maxHeight) ==
  IF key = "" THEN Placeholder
  ELSE IF StartsWith(photoReference, "places/")
       THEN "https://places.googleapis.com/v1/" \o photoReference \o "/media"
              \o "?maxWidthPx=" \o ToString(maxWidth)
              \o "&maxHeightPx=" \o ToString(maxHeight)
              \o "&key=" \o key
       ELSE GOOGLE_PLACES_BASE_URL \o "/photo"
              \o "?photoreference=" \o photoReference
              \o "&maxwidth=" \o ToString(maxWidth)
              \o "&maxheight=" \o ToString(maxHeight)
              \o "&key=" \o key

\* currentRatio >= 1.2 && currentRatio <= 2.0, on exact rationals: for the
\* dimensions of the model the double quotient w/h compares with the
\* doubles 1.2 and 2.0 exactly as w/h compares with 6/5 and 2.
Landscape(w, h) == 5 * w >= 6 * h /\ w <= 2 * h

\* currentSize > bestSize
LargerOrEqual(cur, best) == cur >= best
Larger(cur, best) == cur > best

\* one iteration of the for loop: the index of bestPhoto after looking at
\* photos[i] when bestPhoto was photos[best]
ScanStep(phs, i, best) ==
  IF PhotoWidth(phs[i]) = 0 \/ PhotoHeight(phs[i]) = 0 THEN best
  ELSE IF /\ Landscape(PhotoWidth(phs[i]), PhotoHeight(phs[i]))
          /\ Larger(PhotoWidth(phs[i]) * PhotoHeight(phs[i]),
                    PhotoWidth(phs[best]) * PhotoHeight(phs[best]))
       THEN i ELSE best

RECURSIVE Scan(_, _, _)
Scan(phs, i, best) ==
  IF i > Len(phs) THEN best ELSE Scan(phs, i + 1, ScanStep(phs, i, best))

\* index of the photo getBestRestaurantImage settles on (0: no photos)
BestPhotoIndexFirst(phs) == IF Len(phs) = 0 THEN 0 ELSE 1
BestPhotoIndex(phs) == IF Len(phs) = 0 THEN 0 ELSE Scan(phs, 1, 1)

getBestRestaurantImage(key, phs) ==
  IF Len(phs) = 0 THEN Placeholder
  ELSE LET bestPhoto == phs[BestPhotoIndex(phs)]
           photoRef == OrS(bestPhoto.photo_reference, bestPhoto.name)
       IN IF photoRef # "" THEN getPlacePhotoUrl(key, photoRef, 800, 600)
          ELSE Placeholder

(***************************************************************************)
(* Normalisation of the two provider shapes into the internal records.     *)
(***************************************************************************)
\* String.prototype.trim on the strings of the model (spaces only)
RECURSIVE TrimLeft(_)
TrimLeft(s) ==
  IF Len(s) > 0 /\ SubSeq(s, 1, 1) = " " THEN TrimLeft(SubSeq(s, 2, Len(s)))
  ELSE s
RECURSIVE TrimRight(_)
TrimRight(s) ==
  IF Len(s) > 0 /\ SubSeq(s, Len(s), Len(s)) = " "
  THEN TrimRight(SubSeq(s, 1, Len(s) - 1))
  ELSE s
Trim(s) == TrimRight(TrimLeft(s))

\* typeof x === 'string' && x.trim().length > 0
Usable(s) == Len(Trim(s)) > 0

cuisineMap ==
  [t \in { "restaurant", "food", "meal_takeaway", "meal_delivery", "cafe",
           "bar", "bakery", "chinese_restaurant", "japanese_restaurant",
           "thai_restaurant", "italian_restaurant", "mexican_restaurant",
           "indian_restaurant", "french_restaurant", "american_restaurant",
           "steakhouse" } |->
     CASE t = "restaurant" -> "Restaurant"
       [] t = "food" -> "Food"
       [] t = "meal_takeaway" -> "Takeaway"
       [] t = "meal_delivery" -> "Delivery"
       [] t = "cafe" -> "Cafe"
       [] t = "bar" -> "Bar"
       [] t = "bakery" -> "Bakery"
       [] t = "chinese_restaurant" -> "Chinese"
       [] t = "japanese_restaurant" -> "Japanese"
       [] t = "thai_restaurant" -> "Thai"
       [] t = "italian_restaurant" -> "Italian"
       [] t = "mexican_restaurant" -> "Mexican"
       [] t = "indian_restaurant" -> "Indian"
       [] t = "french_restaurant" -> "French"
       [] t = "american_restaurant" -> "American"
       [] t = "steakhouse" -> "Steakhouse"]

\* the loop of mapCuisineType run from the last tag to the first
RECURSIVE mapCuisineTypeLast(_)
mapCuisineTypeLast(types) ==
  IF Len(types) = 0 THEN "Restaurant"
  ELSE IF types[Len(types)] \in DOMAIN cuisineMap THEN cuisineMap[types[Len(types)]]
       ELSE mapCuisineTypeLast(SubSeq(types, 1, Len(types) - 1))

RECURSIVE mapCuisineType(_)
mapCuisineType(types) ==
  IF Len(types) = 0 THEN "Restaurant"
  ELSE IF Head(types) \in DOMAIN cuisineMap THEN cuisineMap[Head(types)]
       ELSE mapCuisineType(Tail(types))

\* raw records of the provider
LegacyPlace(id, nm, types, price, phs) ==
  [place_id |-> id, name |-> nm, types |-> types, price_level |-> price,
   photos |-> phs]

NewPlace(id, dgName, dispText, nm, title, types, price, phs) ==
  [id |-> id, place_id |-> "", DgDisplayName |-> dgName,
   displayNameText |-> dispText, name |-> nm, title |-> title,
   types |-> types, priceLevel |-> price, photos |-> phs]

Restaurant(id, nm, cuisine, price, img, attrs) ==
  [id |-> id, name |-> nm, cuisine |-> cuisine, priceLevel |-> price,
   image |-> img, photoAttributions |-> attrs]

\* the name probing of searchNearbyRestaurants, new shape
NearbyName(place) ==
  LET restaurantName ==
        IF Usable(place.DgDisplayName) THEN place.DgDisplayName
        ELSE IF Usable(place.displayNameText) THEN place.displayNameText
        ELSE IF Usable(place.name) THEN place.name
        ELSE IF Usable(place.title) THEN place.title
        ELSE ""
  IN OrS(restaurantName, "Unknown Restaurant")

\* place.displayName?.text || place.name || 'Unknown Restaurant'
TextName(place) ==
  OrS(place.displayNameText, OrS(place.name, "Unknown Restaurant"))

\* photos[0].authorAttributions of a new-shape place, [] otherwise
FirstPhotoAttributions(phs) ==
  IF Len(phs) > 0 THEN phs[1].attributions ELSE <<>>

NormalizeNewNearby(key, place) ==
  Restaurant(OrS(place.place_id, place.id), NearbyName(place),
             mapCuisineType(place.types), OrN(place.priceLevel, 2),
             getBestRestaurantImage(key, place.photos),
             FirstPhotoAttributions(place.photos))

NormalizeNewText(key, place) ==
  Restaurant(OrS(place.place_id, place.id), TextName(place),
             mapCuisineType(place.types), OrN(place.priceLevel, 2),
             getBestRestaurantImage(key, place.photos),
             FirstPhotoAttributions(place.photos))

\* the legacy mapping, the same in nearbySearch and textSearch
NormalizeLegacy(key, place) ==
  Restaurant(place.place_id, place.name, mapCuisineType(place.types),
             OrN(place.price_level, 2),
             getBestRestaurantImage(key, place.photos), <<>>)

MapSeq(Op(_), s) == [i \in 1..Len(s) |-> Op(s[i])]

RECURSIVE FilterNamed(_)
\* dg.photos.filter(photo => typeof photo.name === 'string' && ...)
FilterNamed(phs) ==
  IF Len(phs) = 0 THEN <<>>
  ELSE IF Usable(Head(phs).name) THEN <<Head(phs)>> \o FilterNamed(Tail(phs))
       ELSE FilterNamed(Tail(phs))

Details(id, nm, phs) == [place_id |-> id, name |-> nm, photos |-> phs]

\* getPlaceDetails, new shape: place.Dg after fetchFields
DetailsFromNew(placeId, dg) ==
  LET conv(p) == Photo(p.name, "", p.widthPx, p.heightPx, 0, 0, p.attributions)
  IN Details(OrS(dg.id, placeId), OrS(dg.DgDisplayName, "Unknown Restaurant"),
             MapSeq(conv, FilterNamed(dg.photos)))

\* getPlaceDetails, legacy shape
DetailsFromLegacy(place) ==
  LET conv(p) == Photo(p.photo_reference, "", p.width, p.height, 0, 0, <<>>)
  IN Details(place.place_id, place.name, MapSeq(conv, place.photos))

\* raw geocoder result and LocationSearchResult
GeoResult(id, longName, addr, types) ==
  [place_id |-> id, long_name |-> longName, formatted_address |-> addr,
   types |-> types]

LocationFromGeo(r) ==
  [place_id |-> r.place_id, name |-> OrS(r.long_name, r.formatted_address),
   formatted_address |-> r.formatted_address, types |-> r.types]

\* Number.prototype.toFixed(4) of x * 10^-5.  The last digit of |x| is never
\* 5 in the model: such a value is no binary double, and which neighbour
\* toFixed picks depends on the double nearest to it.
Abs(x) == IF x < 0 THEN -x ELSE x
Pad4(n) ==
  IF n < 10 THEN "000" \o ToString(n)
  ELSE IF n < 100 THEN "00" \o ToString(n)
  ELSE IF n < 1000 THEN "0" \o ToString(n)
  ELSE ToString(n)
ToFixed4(x) ==
  LET n == (Abs(x) + 5) \div 10
  IN (IF x < 0 THEN "-" ELSE "") \o ToString(n \div 10000) \o "."
       \o Pad4(n % 10000)

\* `${lat.toFixed(4)}, ${lng.toFixed(4)}`
CoordinateFallback(lat, lng) == ToFixed4(lat) \o ", " \o ToFixed4(lng)

(***************************************************************************)
(* State.                                                                  *)
(***************************************************************************)
VARIABLES
  \* ---- module and page state of googleMaps.ts
  apiKey,            \* GOOGLE_MAPS_API_KEY ("" when the credential is absent)
  googleMapsLoaded,  \* window.googleMapsLoaded && window.google
  scriptTag,         \* the SDK <script> in document.head: none/loading/loaded/error
  newApi,            \* the static entry points google.maps.places.Place offers
  mapInstance,       \* 0 while undefined, else the number of the div it sits on
  placesService,     \* 0 while undefined, else the mapInstance it was built on
  mapDivs,           \* hidden divs appended to document.body
  calls,             \* the adapter operations in flight, one record per caller
  \* ---- one getBestRestaurantImage call
  photos,            \* its argument
  selected,          \* index of the bestPhoto it ended with (0: none)
  image,             \* the URL it returned ("" before the call)
  \* ---- one enhanceRestaurantsWithPhotos call
  provider,          \* what getPlaceDetails meets for each place id
  batch,             \* its argument, the phase-1 sequence
  enrich,            \* one enhanceRestaurantWithPhotos promise per element
  enrichOutcome,     \* the Promise.all: none/pending/resolved/rejected
  enriched,          \* the sequence it resolved with
  runNo,             \* 0 before the first run, then 1, and 2 for a repeated run
  firstIn,           \* the argument of the first run, once a second has begun
  firstOut,          \* what the first run resolved with
  \* ---- one mounted useNearbyRestaurants
  restaurants,       \* useState<Restaurant[]>
  loading,           \* useState(false)
  error,             \* useState<string | null>, "" for null
  searches,          \* the searchRestaurants calls in flight, one per slot
  issued,            \* searchRestaurants calls started so far
  lastWriter,        \* which call (by start number) wrote restaurants/error last
  hook,              \* which hook of useGoogleMaps this is
  cleared,           \* results were cleared or the input emptied since the last start
  \* ---- one call of a synchronous function of the service layer
  types,             \* the tag sequence handed to mapCuisineType
  cuisine,           \* what it returned ("" before the call)
  place,             \* a raw provider place handed to a normalisation
  entity,            \* the Restaurant it was mapped to
  urlCall,           \* a call of a URL-building function: its name and arguments
  urlResult          \* what it returned

sessionVars == <<googleMapsLoaded, scriptTag, newApi, mapInstance,
                 placesService, mapDivs>>
adapterVars == <<sessionVars, calls>>
photoVars == <<photos, selected, image>>
enrichVars == <<provider, batch, enrich, enrichOutcome, enriched, runNo,
                firstIn, firstOut>>
hookVars == <<restaurants, loading, error, searches, issued, lastWriter, hook,
              cleared>>
pureVars == <<types, cuisine, place, entity, urlCall, urlResult>>
vars == <<apiKey, adapterVars, photoVars, enrichVars, hookVars, pureVars>>

Keys == {"", "KEY"}

(***************************************************************************)
(* Provider Session Manager and the adapter operations.                    *)
(*                                                                         *)
(* A call runs synchronously up to its first suspension, so each action    *)
(* below is one such run: from the entry of the operation, or from the     *)
(* resumption after an await, to the next await or to the settlement.      *)
(***************************************************************************)
Callers == {"c1", "c2"}
Kinds == {"nearby", "text", "details", "locations", "reverse"}
EntryPoints == {"searchNearby", "searchByText", "fetchFields"}

\* longest result list of a provider response
MaxResults == 2

\* the new-shape entry point each operation probes
EntryOf(kind) ==
  CASE kind = "nearby" -> "searchNearby"
    [] kind = "text" -> "searchByText"
    [] kind = "details" -> "fetchFields"

StatusOK == "OK"
StatusZero == "ZERO_RESULTS"
Statuses == {StatusOK, StatusZero, "REQUEST_DENIED"}

\* what the provider may hold
LegacyPlaces ==
  { LegacyPlace("A", "Sushi Go", <<"japanese_restaurant", "restaurant">>, 3,
                <<LegacyPhoto("refA", 2, 3), LegacyPhoto("refB", 6, 5)>>),
    LegacyPlace("B", "Diner", <<"restaurant", "food">>, 0, <<>>) }
NewPlaces ==
  { NewPlace("A", "Sushi Go", "", "", "", <<"japanese_restaurant", "restaurant">>,
             3, <<NewPhoto("", 5, 3, <<"carol">>)>>),
    NewPlace("B", "", " ", "", "", <<"point_of_interest">>, 0,
             <<NewPhoto("places/B/photos/1", 6, 3, <<"alice">>)>>) }
NewDetails ==
  { [id |-> "", DgDisplayName |-> "Sushi Go",
     photos |-> <<NewPhoto("places/P/photos/1", 2, 3, <<"alice">>),
                  NewPhoto("", 6, 5, <<>>),
                  NewPhoto("places/P/photos/2", 6, 3, <<"bob">>)>>],
    [id |-> "A", DgDisplayName |-> "", photos |-> <<>>] }
GeoResults ==
  { GeoResult("T", "Toronto", "Toronto, ON, Canada", <<"locality">>),
    GeoResult("K", "", "1 King St W, Toronto", <<>>) }
Addresses == {"1 King St W, Toronto", "Toronto, ON"}
PlaceIds == {"A", "B"}
Queries == {"", "sushi"}
\* <<lat, lng>> in units of 10^-5 degree
Coords == { <<4365320, -7938320>>, <<-4, 4365327>> }

SeqsUpTo(S, n) == UNION { [1..k -> S] : k \in 0..n }

ArgsOf(kind) ==
  CASE kind = "nearby" -> {"here"}
    [] kind = "text" -> {"sushi"}
    [] kind = "details" -> PlaceIds
    [] kind = "locations" -> Queries
    [] kind = "reverse" -> Coords

IdleCall ==
  [kind |-> "none", pc |-> "idle", arg |-> "", loads |-> 0, newCalls |-> 0,
   legacyCalls |-> 0, geoCalls |-> 0, fellBack |-> "", outcome |-> "none",
   value |-> "", status |-> "", results |-> <<>>]

Resolved(rec, v) == [rec EXCEPT !.pc = "done", !.outcome = "resolved", !.value = v]
Rejected(rec, msg) == [rec EXCEPT !.pc = "done", !.outcome = "rejected", !.value = msg]

\* if (!mapInstance)
SessionMissingAlways(m) == TRUE
SessionMissingNever(m) == FALSE
SessionMissing(m) == m = 0

\* loadGoogleMapsScript as called by waitForGoogleMaps: where the caller is
\* left when the synchronous part ends
\*   "resumed"    the promise of waitForGoogleMaps is already resolved
\*   "waitEvent"  a listener for google-maps-loaded only
\*   "waitScript" a new script: listener and onerror
LoadOutcome(loaded, key, tag) ==
  IF loaded THEN "resumed"
  ELSE IF key = "" THEN "resumed"
  ELSE IF tag # "none" THEN "waitEvent"
  ELSE "waitScript"

\* entry of any adapter operation: await initializeGoogleMapsService(),
\* which awaits waitForGoogleMaps()
Issue(c, kind, arg) ==
  /\ calls[c].pc = "idle"
  /\ LET to == LoadOutcome(googleMapsLoaded, apiKey, scriptTag)
     IN /\ calls' = [calls EXCEPT ![c] =
                       [IdleCall EXCEPT !.kind = kind, !.arg = arg, !.pc = to,
                          !.loads = IF to = "waitScript" THEN 1 ELSE 0]]
        /\ scriptTag' = IF to = "waitScript" THEN "loading" ELSE scriptTag
  /\ UNCHANGED <<apiKey, googleMapsLoaded, newApi, mapInstance, placesService,
                 mapDivs, photoVars, pureVars, enrichVars, hookVars>>

\* the SDK calls window.initGoogleMaps: the flag is set and the event
\* google-maps-loaded resolves every listener
ScriptLoaded ==
  /\ scriptTag = "loading"
  /\ scriptTag' = "loaded"
  /\ googleMapsLoaded' = TRUE
  /\ calls' = [c \in Callers |->
                 IF calls[c].pc \in {"waitScript", "waitEvent"}
                 THEN [calls[c] EXCEPT !.pc = "resumed"] ELSE calls[c]]
  /\ UNCHANGED <<apiKey, newApi, mapInstance, placesService, mapDivs, photoVars, pureVars, enrichVars, hookVars>>

\* script.onerror: only the promise of the call that created the script
\* has this handler; waitForGoogleMaps swallows the rejection
ScriptError ==
  /\ scriptTag = "loading"
  /\ scriptTag' = "error"
  /\ calls' = [c \in Callers |->
                 IF calls[c].pc = "waitScript"
                 THEN [calls[c] EXCEPT !.pc = "resumed"] ELSE calls[c]]
  /\ UNCHANGED <<apiKey, googleMapsLoaded, newApi, mapInstance, placesService,
                 mapDivs, photoVars, pureVars, enrichVars, hookVars>>

\* the legacy request of a search or details operation is issued
StartLegacy(rec, why) ==
  [rec EXCEPT !.pc = "awaitLegacy", !.legacyCalls = @ + 1, !.fellBack = why]

\* first provider call of an operation, once the session exists
StartQuery(rec, api) ==
  IF rec.kind \in {"locations", "reverse"}
  THEN [rec EXCEPT !.pc = "awaitGeocode", !.geoCalls = @ + 1]
  ELSE IF EntryOf(rec.kind) \in api
       THEN [rec EXCEPT !.pc = "awaitNew", !.newCalls = @ + 1]
       ELSE StartLegacy(rec, "unavailable")

\* rest of initializeGoogleMapsService after `await waitForGoogleMaps()`,
\* and the operation up to its first provider call
Resume(c) ==
  /\ calls[c].pc = "resumed"
  /\ IF ~googleMapsLoaded
     THEN /\ calls' = [calls EXCEPT ![c] =
                         Rejected(@, "Google Maps API failed to load")]
          /\ UNCHANGED <<mapInstance, placesService, mapDivs>>
     ELSE /\ IF SessionMissing(mapInstance)
             THEN /\ mapDivs' = mapDivs + 1
                  /\ mapInstance' = mapDivs + 1
                  /\ placesService' = mapDivs + 1
             ELSE UNCHANGED <<mapInstance, placesService, mapDivs>>
          /\ calls' = [calls EXCEPT ![c] = StartQuery(@, newApi)]
  /\ UNCHANGED <<apiKey, googleMapsLoaded, scriptTag, newApi, photoVars, pureVars, enrichVars, hookVars>>

\* the new-shape call returned: the operation resolves with its mapping
SettleNew(key, rec, resp) ==
  CASE rec.kind = "nearby" ->
         Resolved([rec EXCEPT !.results = resp],
                  [i \in 1..Len(resp) |-> NormalizeNewNearby(key, resp[i])])
    [] rec.kind = "text" ->
         Resolved([rec EXCEPT !.results = resp],
                  [i \in 1..Len(resp) |-> NormalizeNewText(key, resp[i])])
    [] rec.kind = "details" ->
         Resolved([rec EXCEPT !.results = resp], DetailsFromNew(rec.arg, resp[1]))

NewResponses(kind) ==
  IF kind = "details" THEN { <<d>> : d \in NewDetails }
  ELSE SeqsUpTo(NewPlaces, MaxResults)

NewReturns(c) ==
  /\ calls[c].pc = "awaitNew"
  /\ \E resp \in NewResponses(calls[c].kind) :
       calls' = [calls EXCEPT ![c] = SettleNew(apiKey, @, resp)]
  /\ UNCHANGED <<apiKey, sessionVars, photoVars, pureVars, enrichVars, hookVars>>

\* catch (error) { console.warn(...) } and on to the legacy request
OnNewThrowReject(rec) == Rejected(rec, "New Place API failed")
OnNewThrow(rec) == StartLegacy(rec, "threw")

\* the new-shape call threw
NewThrows(c) ==
  /\ calls[c].pc = "awaitNew"
  /\ calls' = [calls EXCEPT ![c] = OnNewThrow(@)]
  /\ UNCHANGED <<apiKey, sessionVars, photoVars, pureVars, enrichVars, hookVars>>

\* statuses on which the legacy callback of an operation resolves with []
LegacyEmptyStatuses(kind) == IF kind = "text" THEN {StatusZero} ELSE {}

LegacyErrorPrefix(kind) ==
  CASE kind = "nearby" -> "Places API error: "
    [] kind = "text" -> "Text Search API error: "
    [] kind = "details" -> "Place Details API error: "

LegacyFailedRetry(rec, status) ==
  IF rec.legacyCalls < 3 THEN StartLegacy(rec, rec.fellBack)
  ELSE Rejected(rec, LegacyErrorPrefix(rec.kind) \o status)
LegacyFailed(rec, status) ==
  Rejected(rec, LegacyErrorPrefix(rec.kind) \o status)

\* callback of placesService.nearbySearch / textSearch / getDetails
SettleLegacy(key, rec, status, res) ==
  LET r == [rec EXCEPT !.status = status, !.results = res]
  IN IF status = StatusOK
     THEN IF rec.kind = "details"
          THEN Resolved(r, DetailsFromLegacy(res[1]))
          ELSE Resolved(r, [i \in 1..Len(res) |-> NormalizeLegacy(key, res[i])])
     ELSE IF status \in LegacyEmptyStatuses(rec.kind) THEN Resolved(r, <<>>)
     ELSE LegacyFailed(r, status)

\* the provider reports results with OK only
LegacyResults(kind, status) ==
  IF status # StatusOK THEN { <<>> }
  ELSE IF kind = "details" THEN { <<p>> : p \in LegacyPlaces }
  ELSE SeqsUpTo(LegacyPlaces, MaxResults) \ { <<>> }

LegacyAnswers(c) ==
  /\ calls[c].pc = "awaitLegacy"
  /\ placesService # 0
  /\ \E status \in Statuses : \E res \in LegacyResults(calls[c].kind, status) :
       calls' = [calls EXCEPT ![c] = SettleLegacy(apiKey, @, status, res)]
  /\ UNCHANGED <<apiKey, sessionVars, photoVars, pureVars, enrichVars, hookVars>>

\* callback of geocoder.geocode in searchLocationsByText
SettleLocationsOKOnly(rec, status, res) ==
  LET r == [rec EXCEPT !.status = status, !.results = res]
  IN IF status = StatusOK
     THEN Resolved(r, [i \in 1..Len(res) |-> LocationFromGeo(res[i])])
     ELSE Rejected(r, "Geocoding API error: " \o status)
SettleLocations(rec, status, res) ==
  LET r == [rec EXCEPT !.status = status, !.results = res]
  IN IF status = StatusOK
     THEN Resolved(r, [i \in 1..Len(res) |-> LocationFromGeo(res[i])])
     ELSE IF status = StatusZero THEN Resolved(r, <<>>)
     ELSE Rejected(r, "Geocoding API error: " \o status)

\* callback of geocoder.geocode in reverseGeocode
SettleReverse(rec, status, res) ==
  LET r == [rec EXCEPT !.status = status, !.results = res]
  IN IF status = StatusOK /\ Len(res) > 0
     THEN Resolved(r, res[1])
     ELSE Resolved(r, CoordinateFallback(rec.arg[1], rec.arg[2]))

GeocodeResults(kind, status) ==
  IF status # StatusOK THEN { <<>> }
  ELSE IF kind = "locations" THEN SeqsUpTo(GeoResults, MaxResults) \ { <<>> }
  ELSE SeqsUpTo(Addresses, MaxResults)

GeocodeAnswers(c) ==
  /\ calls[c].pc = "awaitGeocode"
  /\ \E status \in Statuses : \E res \in GeocodeResults(calls[c].kind, status) :
       calls' = [calls EXCEPT ![c] =
                   IF calls[c].kind = "locations"
                   THEN SettleLocations(@, status, res)
                   ELSE SettleReverse(@, status, res)]
  /\ UNCHANGED <<apiKey, sessionVars, photoVars, pureVars, enrichVars, hookVars>>

\* the caller has taken the settled promise; it may issue its next operation
Return(c) ==
  /\ calls[c].pc = "done"
  /\ calls' = [calls EXCEPT ![c] = IdleCall]
  /\ UNCHANGED <<apiKey, sessionVars, photoVars, pureVars, enrichVars, hookVars>>

PhotoIdle == photos = <<>> /\ selected = 0 /\ image = ""

EnrichIdle ==
  /\ provider = <<>>
  /\ batch = <<>>
  /\ enrich = <<>>
  /\ enrichOutcome = "none"
  /\ enriched = <<>>
  /\ runNo = 0
  /\ firstIn = <<>>
  /\ firstOut = <<>>

\* a call of a URL-building function; the fields an operation does not
\* take are left at <<>> / ""
UrlCall(op, ref, phs, size, at, origin, markers) ==
  [op |-> op, ref |-> ref, photos |-> phs, size |-> size, at |-> at,
   origin |-> origin, markers |-> markers]
NoCall == UrlCall("none", "", <<>>, "", <<>>, <<>>, <<>>)

CuisineIdle == types = <<>> /\ cuisine = ""
NoEntity == Restaurant("", "", "", 0, "", <<>>)
NoPlace == [path |-> "none"]
NormalizeIdle == place = NoPlace /\ entity = NoEntity
UrlIdle == urlCall = NoCall /\ urlResult = <<>>

PureIdle == CuisineIdle /\ NormalizeIdle /\ UrlIdle

HookIdle ==
  /\ restaurants = <<>>
  /\ loading = FALSE
  /\ error = ""
  /\ searches = <<>>
  /\ issued = 0
  /\ lastWriter = 0
  /\ hook = "none"
  /\ cleared = FALSE

AdapterIdle ==
  /\ googleMapsLoaded = FALSE
  /\ scriptTag = "none"
  /\ newApi = {}
  /\ mapInstance = 0
  /\ placesService = 0
  /\ mapDivs = 0
  /\ calls = [c \in Callers |-> IdleCall]

Init ==
  /\ apiKey \in Keys
  /\ googleMapsLoaded = FALSE
  /\ scriptTag = "none"
  /\ newApi \in SUBSET EntryPoints
  /\ mapInstance = 0
  /\ placesService = 0
  /\ mapDivs = 0
  /\ calls = [c \in Callers |-> IdleCall]
  /\ PhotoIdle
  /\ EnrichIdle
  /\ HookIdle
  /\ PureIdle

Next ==
  \/ \E c \in Callers : \E kind \in Kinds : \E arg \in ArgsOf(kind) : Issue(c, kind, arg)
  \/ ScriptLoaded
  \/ ScriptError
  \/ \E c \in Callers : Resume(c)
  \/ \E c \in Callers : NewReturns(c)
  \/ \E c \in Callers : NewThrows(c)
  \/ \E c \in Callers : LegacyAnswers(c)
  \/ \E c \in Callers : GeocodeAnswers(c)
  \/ \E c \in Callers : Return(c)

Spec == Init /\ [][Next]_vars

\* The script load signals loaded or error, resumed continuations run, and
\* the provider answers every request; nobody is obliged to issue a call.
FairSpec ==
  /\ Init /\ [][Next]_vars
  /\ WF_vars(ScriptLoaded \/ ScriptError)
  /\ \A c \in Callers :
       /\ WF_vars(Resume(c))
       /\ WF_vars(NewReturns(c) \/ NewThrows(c))
       /\ WF_vars(LegacyAnswers(c))
       /\ WF_vars(GeocodeAnswers(c))

(***************************************************************************)
(* Claims about the adapter operations and the session (Spec, FairSpec).   *)
(***************************************************************************)
SearchKinds == {"nearby", "text"}
DualKinds == {"nearby", "text", "details"}

\* C1: a search or details operation whose new-shape entry point was present
\* and threw, and whose legacy request answered OK, resolves with the legacy
\* response normalised: one entity per legacy result, in the same order.
C1_FallbackResolvesLegacy ==
  \A c \in Callers :
    LET r == calls[c] IN
    /\ (/\ r.pc = "done" /\ r.kind \in DualKinds
        /\ r.newCalls = 1 /\ r.fellBack = "threw" /\ r.status = StatusOK)
       => /\ r.outcome = "resolved"
          /\ IF r.kind = "details"
             THEN /\ r.value.place_id = r.results[1].place_id
                  /\ r.value.name = r.results[1].name
                  /\ Len(r.value.photos) = Len(r.results[1].photos)
             ELSE /\ Len(r.value) = Len(r.results)
                  /\ \A i \in 1..Len(r.results) :
                       /\ r.value[i].id = r.results[i].place_id
                       /\ r.value[i].name = r.results[i].name
                       /\ r.value[i].photoAttributions = <<>>
    \* a throw of the new-shape call is never what the caller sees: an
    \* operation that made it and failed has gone through the legacy call
    /\ (r.pc = "done" /\ r.kind \in DualKinds /\ r.newCalls = 1
        /\ r.outcome = "rejected") => r.legacyCalls = 1

C1_Witness ==
  \E c \in Callers :
    /\ calls[c].pc = "done" /\ calls[c].kind = "nearby"
    /\ calls[c].fellBack = "threw" /\ calls[c].status = StatusOK
    /\ Len(calls[c].results) = 2
    /\ calls[c].results[1] # calls[c].results[2]
    /\ calls[c].outcome = "resolved"

\* the provider answered a search with zero results, on either path
ZeroResultsAnswer(r) ==
  \/ r.newCalls = 1 /\ r.legacyCalls = 0 /\ r.results = <<>>
  \/ r.legacyCalls = 1 /\ r.status = StatusZero

\* C2: a nearby or text search that the provider answers with zero results,
\* on the new-shape or on the legacy path, resolves with the empty sequence.
C2_ZeroResultsResolveEmpty ==
  \A c \in Callers :
    LET r == calls[c] IN
    (r.pc = "done" /\ r.kind \in SearchKinds /\ ZeroResultsAnswer(r))
    => (r.outcome = "resolved" /\ r.value = <<>>)

\* C3: the new-shape entry point and the legacy entry point are each called
\* at most once per operation; the legacy one only once the new one was
\* found unavailable or threw; a failed legacy call rejects with the status
\* as reason and no provider call follows.
C3_OneFallbackNoRetry ==
  \A c \in Callers :
    LET r == calls[c] IN
    /\ r.newCalls <= 1
    /\ r.legacyCalls <= 1
    /\ r.legacyCalls = 1 =>
         \/ r.fellBack = "unavailable" /\ r.newCalls = 0
              /\ EntryOf(r.kind) \notin newApi
         \/ r.fellBack = "threw" /\ r.newCalls = 1
    /\ r.pc = "awaitLegacy" => r.legacyCalls = 1
    /\ (r.pc = "done" /\ r.legacyCalls >= 1 /\ r.status \notin {StatusOK, StatusZero})
       => /\ r.outcome = "rejected"
          /\ r.value = LegacyErrorPrefix(r.kind) \o r.status
          /\ r.newCalls + r.legacyCalls <= 2
          /\ r.geoCalls = 0

C3_Witness ==
  \E c \in Callers :
    /\ calls[c].pc = "done" /\ calls[c].kind = "details"
    /\ calls[c].newCalls = 1 /\ calls[c].legacyCalls = 1
    /\ calls[c].status = "REQUEST_DENIED"
    /\ calls[c].outcome = "rejected"

\* C4: reverseGeocode never rejects; when the SDK failed to load, when the
\* geocoder status is not OK and when it is OK with no result, it resolves
\* with latitude and longitude at four decimals, separated by ", ".
C4_ReverseNeverRejects ==
  \A c \in Callers :
    LET r == calls[c] IN
    (r.pc = "done" /\ r.kind = "reverse")
    => /\ r.outcome = "resolved"
       /\ (r.geoCalls = 0 \/ r.status # StatusOK \/ r.results = <<>>)
          => r.value = CoordinateFallback(r.arg[1], r.arg[2])

\* C7: under every interleaving of the initialisers the session pair is
\* assigned at most once and at most one hidden div is appended; a later
\* initialiser finds mapInstance set and creates nothing.
C7_SessionCreatedOnce ==
  /\ mapDivs <= 1
  /\ mapInstance = mapDivs
  /\ placesService = mapInstance

C7_Witness ==
  /\ mapDivs = 1
  /\ \A c \in Callers : calls[c].pc \in {"awaitNew", "awaitLegacy", "awaitGeocode"}
  /\ \E c \in Callers : calls[c].loads = 1
  /\ \E c \in Callers : calls[c].loads = 0

\* the SDK script cannot be loaded
CannotLoad == ~googleMapsLoaded /\ (apiKey = "" \/ scriptTag = "error")

\* C8: when the SDK script cannot be loaded, every operation issued fails
\* with an error to its caller, calls no provider entry point and attempts
\* the load at most once.
C8_LoadFailureFailsEveryCall ==
  /\ [](\A c \in Callers :
          CannotLoad =>
            /\ calls[c].newCalls + calls[c].legacyCalls + calls[c].geoCalls = 0
            /\ calls[c].loads <= 1
            /\ calls[c].pc = "done" => calls[c].outcome = "rejected")
  /\ \A c \in Callers :
       [](CannotLoad /\ calls[c].pc # "idle"
            => <>(calls[c].pc = "done" /\ calls[c].outcome = "rejected"))

\* C14: a location search with the empty query issues no geocode call and
\* yields the empty sequence (once the SDK is loaded), also when
\* searchLocationsByText is called directly.
C14_EmptyQueryNoGeocode ==
  \A c \in Callers :
    LET r == calls[c] IN
    (r.kind = "locations" /\ r.arg = "") =>
      /\ r.geoCalls = 0
      /\ (r.pc = "done" /\ googleMapsLoaded) =>
           (r.outcome = "resolved" /\ r.value = <<>>)

\* C15: searchLocationsByText resolves with [] on ZERO_RESULTS, with one
\* LocationSearchResult per provider result, in order, on OK, and rejects
\* with the status as reason on every other status.
C15_LocationStatuses ==
  \A c \in Callers :
    LET r == calls[c] IN
    (r.pc = "done" /\ r.kind = "locations" /\ r.geoCalls = 1) =>
      /\ r.status = StatusZero => (r.outcome = "resolved" /\ r.value = <<>>)
      /\ r.status = StatusOK =>
           /\ r.outcome = "resolved"
           /\ Len(r.value) = Len(r.results)
           /\ \A i \in 1..Len(r.results) :
                /\ r.value[i].place_id = r.results[i].place_id
                /\ r.value[i].formatted_address = r.results[i].formatted_address
                /\ r.value[i].types = r.results[i].types
                /\ r.value[i].name \in {r.results[i].long_name,
                                        r.results[i].formatted_address}
                /\ r.value[i].name # ""
      /\ r.status \notin {StatusOK, StatusZero} =>
           /\ r.outcome = "rejected"
           /\ r.value = "Geocoding API error: " \o r.status

C15_Witness ==
  \E c \in Callers :
    /\ calls[c].pc = "done" /\ calls[c].kind = "locations"
    /\ calls[c].status = StatusOK
    /\ Len(calls[c].results) = 2
    /\ calls[c].results[1] # calls[c].results[2]
    /\ calls[c].outcome = "resolved"
    /\ \E d \in Callers :
         /\ calls[d].pc = "done" /\ calls[d].kind = "locations"
         /\ calls[d].status = StatusZero

\* C22: no restaurant search and no place-details operation invokes a
\* legacy PlacesService entry point (nearbySearch, textSearch, getDetails).
C22_LegacyNeverInvoked ==
  \A c \in Callers :
    calls[c].kind \in DualKinds =>
      calls[c].legacyCalls = 0 /\ calls[c].pc # "awaitLegacy"

\* operation c has invoked a provider entry point
ProviderInvoked(c) ==
  \/ calls[c].newCalls + calls[c].legacyCalls + calls[c].geoCalls > 0
  \/ calls[c].pc \in {"awaitNew", "awaitLegacy", "awaitGeocode"}

\* C27: a provider entry point is invoked only with the SDK loaded and, for
\* the legacy entry points, with placesService set; the operation has come
\* through initializeGoogleMapsService before its first provider call.
C27_ProviderCallsAfterInit ==
  \A c \in Callers :
    /\ ProviderInvoked(c) =>
         /\ googleMapsLoaded
         /\ mapInstance # 0
         /\ calls[c].legacyCalls > 0 => placesService # 0
    /\ calls[c].pc \in {"waitScript", "waitEvent", "resumed"} => ~ProviderInvoked(c)

C27_Witness ==
  \E c \in Callers : \E d \in Callers :
    /\ calls[c].pc = "awaitLegacy" /\ calls[c].legacyCalls = 1
    /\ calls[d].pc = "awaitGeocode" /\ calls[d].loads = 0
    /\ placesService # 0

\* operation c is inside initializeGoogleMapsService
Initializing(c) == calls[c].pc \in {"waitScript", "waitEvent", "resumed"}

\* C28: provided every script load signals loaded or error, every call of
\* initializeGoogleMapsService settles: no operation stays inside it for
\* ever, also when it was called while a load that then failed was pending.
C28_InitializeSettles ==
  \A c \in Callers : [](Initializing(c) => <>(~Initializing(c)))

(***************************************************************************)
(* Cuisine mapping: mapCuisineType applied to every tag sequence within    *)
(* the bounds.                                                             *)
(***************************************************************************)
\* longest tag sequence of a place
MaxTags == 3

\* tags the provider attaches to a place: generic and specific ones of the
\* table, and one the table does not hold
GenericTags == {"restaurant", "food"}
SpecificTags == {"thai_restaurant", "japanese_restaurant", "steakhouse"}
Tags == GenericTags \cup SpecificTags \cup {"point_of_interest"}

InitCuisine ==
  /\ apiKey = "KEY"
  /\ types \in SeqsUpTo(Tags, MaxTags)
  /\ cuisine = ""
  /\ AdapterIdle
  /\ PhotoIdle
  /\ EnrichIdle
  /\ HookIdle
  /\ NormalizeIdle
  /\ UrlIdle

\* cuisine: mapCuisineType(place.types)
ClassifyCuisine ==
  /\ cuisine = ""
  /\ cuisine' = mapCuisineType(types)
  /\ UNCHANGED <<apiKey, adapterVars, photoVars, enrichVars, hookVars, types,
                 place, entity, urlCall, urlResult>>

NextCuisine == ClassifyCuisine

SpecCuisine == InitCuisine /\ [][NextCuisine]_vars

(***************************************************************************)
(* Claims about the cuisine mapping (SpecCuisine).                         *)
(***************************************************************************)
\* positions of the tags the table holds
TableHits(ts) == { i \in 1..Len(ts) : ts[i] \in DOMAIN cuisineMap }
FirstHit(ts) == CHOOSE i \in TableHits(ts) : \A j \in TableHits(ts) : i <= j

\* C16: mapCuisineType returns the label of the first tag of the sequence
\* that the table holds, and "Restaurant" when it holds none of them;
\* ["japanese_restaurant","restaurant"] gives "Japanese" and
\* ["restaurant","food"] gives "Restaurant".
C16_FirstTagInTable ==
  cuisine # "" =>
    /\ IF TableHits(types) = {} THEN cuisine = "Restaurant"
       ELSE cuisine = cuisineMap[types[FirstHit(types)]]
    /\ types = <<"japanese_restaurant", "restaurant">> => cuisine = "Japanese"
    /\ types = <<"restaurant", "food">> => cuisine = "Restaurant"

C16_Witness ==
  /\ types = <<"point_of_interest", "japanese_restaurant", "restaurant">>
  /\ cuisine = "Japanese"

\* C17: a tag sequence holding a specific cuisine tag and generic tags is
\* labelled with a specific cuisine tag of the sequence, wherever the
\* generic tags stand.
C17_SpecificOutranksGeneric ==
  (/\ cuisine # ""
   /\ \E i \in 1..Len(types) : types[i] \in SpecificTags
   /\ \E i \in 1..Len(types) : types[i] \in GenericTags)
  => \E i \in 1..Len(types) :
       types[i] \in SpecificTags /\ cuisine = cuisineMap[types[i]]

(***************************************************************************)
(* Normalisation: the three mappings from a raw provider place to a        *)
(* Restaurant, applied to every raw place within the bounds.               *)
(***************************************************************************)
\* largest price value of a raw place (the provider's scale ends at 4)
MaxPrice == 5

\* what a name field of a raw place may hold: missing, blank, a name
NameValues == {"", " ", "Cafe"}

\* the mapping a raw place goes through: searchNearbyRestaurants new shape,
\* searchPlacesByText new shape, and the legacy shape of both
Paths == {"nearbyNew", "textNew", "legacy"}

RawPlaces(path) ==
  IF path = "legacy"
  THEN { LegacyPlace("P", nm, <<"cafe">>, price, <<>>) :
           nm \in NameValues, price \in 0..MaxPrice }
  ELSE { NewPlace("P", n[1], n[2], n[3], n[4], <<"cafe">>, price, <<>>) :
           n \in NameValues \X NameValues \X NameValues \X NameValues,
           price \in 0..MaxPrice }

InitNormalize ==
  /\ apiKey = "KEY"
  /\ \E path \in Paths : \E raw \in RawPlaces(path) :
       place = [path |-> path, raw |-> raw]
  /\ entity = NoEntity
  /\ AdapterIdle
  /\ PhotoIdle
  /\ EnrichIdle
  /\ HookIdle
  /\ CuisineIdle
  /\ UrlIdle

\* places.map(...) / results.map(...) on one element
Normalize ==
  /\ entity = NoEntity
  /\ entity' = CASE place.path = "nearbyNew" -> NormalizeNewNearby(apiKey, place.raw)
                  [] place.path = "textNew" -> NormalizeNewText(apiKey, place.raw)
                  [] place.path = "legacy" -> NormalizeLegacy(apiKey, place.raw)
  /\ UNCHANGED <<apiKey, adapterVars, photoVars, enrichVars, hookVars, types,
                 cuisine, place, urlCall, urlResult>>

NextNormalize == Normalize

SpecNormalize == InitNormalize /\ [][NextNormalize]_vars

(***************************************************************************)
(* Claims about the normalisation (SpecNormalize).                         *)
(***************************************************************************)
Normalized == entity # NoEntity

\* the name fields a raw place of either shape may carry
NameFields(pl) ==
  IF pl.path = "legacy" THEN {pl.raw.name}
  ELSE {pl.raw.DgDisplayName, pl.raw.displayNameText, pl.raw.name, pl.raw.title}

\* C18: on every path the entity has a non-empty name, and it is the
\* sentinel 'Unknown Restaurant' when no name field of the raw place holds
\* a non-blank string.
C18_NameNeverEmpty ==
  Normalized =>
    /\ entity.name # ""
    /\ (\A f \in NameFields(place) : ~Usable(f)) => entity.name = "Unknown Restaurant"

\* C19: on every path the entity's priceLevel is in 1..4, and it is 2 when
\* the raw place carries no price.
C19_PriceLevelInRange ==
  Normalized =>
    /\ entity.priceLevel \in 1..4
    /\ (IF place.path = "legacy" THEN place.raw.price_level
        ELSE place.raw.priceLevel) = 0 => entity.priceLevel = 2

(***************************************************************************)
(* URL building: the synchronous functions of the service layer that       *)
(* return URLs, applied to the arguments within the bounds.  urlResult is  *)
(* the sequence of the URLs returned: one, or the four of                  *)
(* getRestaurantImages (thumbnail, medium, large, hero).  Coordinates are  *)
(* whole degrees here, so that `${lat}` is the decimal numeral.            *)
(***************************************************************************)
\* most markers handed to getStaticMapUrl
MaxMarkers == 2

sizeConfig ==
  [sz \in {"thumbnail", "medium", "large", "hero"} |->
     CASE sz = "thumbnail" -> <<200, 150>>
       [] sz = "medium" -> <<400, 300>>
       [] sz = "large" -> <<800, 600>>
       [] sz = "hero" -> <<1200, 800>>]

\* photoRef of the first photo, "" when there is none
FirstPhotoRef(phs) ==
  IF Len(phs) = 0 THEN "" ELSE OrS(phs[1].photo_reference, phs[1].name)

getRestaurantImages(key, phs) ==
  LET photoRef == FirstPhotoRef(phs) IN
  IF photoRef = "" THEN <<Placeholder, Placeholder, Placeholder, Placeholder>>
  ELSE << getPlacePhotoUrl(key, photoRef, 200, 150),
          getPlacePhotoUrl(key, photoRef, 400, 300),
          getPlacePhotoUrl(key, photoRef, 800, 600),
          getPlacePhotoUrl(key, photoRef, 1200, 800) >>

getRestaurantImageWithFallback(key, phs, size) ==
  LET photoRef == FirstPhotoRef(phs) IN
  IF photoRef = "" THEN Placeholder
  ELSE getPlacePhotoUrl(key, photoRef, sizeConfig[size][1], sizeConfig[size][2])

\* `${p.lat},${p.lng}`, and the same as a query value of URLSearchParams
LatLng(p) == ToString(p[1]) \o "," \o ToString(p[2])
LatLngParam(p) == ToString(p[1]) \o "%2C" \o ToString(p[2])

getDirectionsUrl(destination, origin) ==
  LET baseUrl == "https://www.google.com/maps/dir/" IN
  IF origin # <<>> THEN baseUrl \o LatLng(origin) \o "/" \o LatLng(destination)
  ELSE baseUrl \o "Current+Location/" \o LatLng(destination)

\* String.fromCharCode(65 + index)
Letter(index) == SubSeq("ABCDEFGHIJKLMNOPQRSTUVWXYZ", index + 1, index + 1)

RECURSIVE MarkerParams(_, _)
\* markers.forEach((marker, index) => url.searchParams.append('markers', ...))
MarkerParams(markers, index) ==
  IF index >= Len(markers) THEN ""
  ELSE LET marker == markers[index + 1]
           label == OrS(marker.label, Letter(index))
       IN "&markers=label%3A" \o label \o "%7C" \o LatLngParam(marker.at)
            \o MarkerParams(markers, index + 1)

getStaticMapUrl(key, center, zoom, width, height, markers) ==
  IF key = "" THEN Placeholder
  ELSE "https://maps.googleapis.com/maps/api/staticmap"
         \o "?center=" \o LatLngParam(center)
         \o "&zoom=" \o ToString(zoom)
         \o "&size=" \o ToString(width) \o "x" \o ToString(height)
         \o "&key=" \o key
         \o (IF Len(markers) > 0 THEN MarkerParams(markers, 0)
             ELSE "&markers=" \o LatLngParam(center))

\* arguments of the calls
UrlPhotos ==
  { LegacyPhoto("refA", 2, 3), NewPhoto("places/P/photos/1", 6, 3, <<>>),
    NewPhoto("", 5, 3, <<>>) }
UrlPoints == { <<43, -79>>, <<0, 7>> }
UrlMarkers == { [at |-> p, label |-> l] : p \in UrlPoints, l \in {"", "X"} }

UrlCalls ==
  { UrlCall("getPlacePhotoUrl", ref, <<>>, "", <<>>, <<>>, <<>>) :
      ref \in {"refA", "places/P/photos/1"} }
  \cup { UrlCall(op, "", phs, "", <<>>, <<>>, <<>>) :
           op \in {"getBestRestaurantImage", "getRestaurantImages"},
           phs \in SeqsUpTo(UrlPhotos, MaxPhotos) }
  \cup { UrlCall("getRestaurantImageWithFallback", "", phs, sz, <<>>, <<>>, <<>>) :
           phs \in SeqsUpTo(UrlPhotos, MaxPhotos), sz \in DOMAIN sizeConfig }
  \cup { UrlCall("getStaticMapUrl", "", <<>>, "", p, <<>>, ms) :
           p \in UrlPoints, ms \in SeqsUpTo(UrlMarkers, MaxMarkers) }
  \cup { UrlCall("getDirectionsUrl", "", <<>>, "", p, o, <<>>) :
           p \in UrlPoints, o \in UrlPoints \cup { <<>> } }

InitUrl ==
  /\ apiKey \in Keys
  /\ urlCall \in UrlCalls
  /\ urlResult = <<>>
  /\ AdapterIdle
  /\ PhotoIdle
  /\ EnrichIdle
  /\ HookIdle
  /\ CuisineIdle
  /\ NormalizeIdle

\* the call returns
BuildUrl ==
  /\ urlResult = <<>>
  /\ urlResult' =
       CASE urlCall.op = "getPlacePhotoUrl" ->
              << getPlacePhotoUrl(apiKey, urlCall.ref, 800, 600) >>
         [] urlCall.op = "getBestRestaurantImage" ->
              << getBestRestaurantImage(apiKey, urlCall.photos) >>
         [] urlCall.op = "getRestaurantImages" ->
              getRestaurantImages(apiKey, urlCall.photos)
         [] urlCall.op = "getRestaurantImageWithFallback" ->
              << getRestaurantImageWithFallback(apiKey, urlCall.photos, urlCall.size) >>
         [] urlCall.op = "getStaticMapUrl" ->
              << getStaticMapUrl(apiKey, urlCall.at, 15, 400, 300, urlCall.markers) >>
         [] urlCall.op = "getDirectionsUrl" ->
              << getDirectionsUrl(urlCall.at, urlCall.origin) >>
  /\ UNCHANGED <<apiKey, adapterVars, photoVars, enrichVars, hookVars, types,
                 cuisine, place, entity, urlCall>>

NextUrl == BuildUrl

SpecUrl == InitUrl /\ [][NextUrl]_vars

(***************************************************************************)
(* Claims about the URL building (SpecUrl).                                *)
(***************************************************************************)
\* C20: with the credential absent every URL-building function returns the
\* placeholder '/placeholder.svg' and no provider URL.
C20_NoKeyGivesPlaceholder ==
  (apiKey = "" /\ urlResult # <<>>) =>
    \A i \in 1..Len(urlResult) : urlResult[i] = Placeholder

(***************************************************************************)
(* Photo selection: getBestRestaurantImage applied to every candidate      *)
(* sequence within the bounds.                                             *)
(***************************************************************************)
RefShapes == {"legacy", "new", "none"}

\* the i-th candidate of a sequence of the given provider shape
Candidate(shape, i, w, h) ==
  IF shape = "legacy" THEN LegacyPhoto("ref" \o ToString(i), w, h)
  ELSE IF shape = "new" THEN NewPhoto("places/p/photos/" \o ToString(i), w, h, <<>>)
  ELSE NewPhoto("", w, h, <<>>)

InitPhoto ==
  /\ apiKey \in Keys
  /\ \E shape \in RefShapes : \E n \in 0..MaxPhotos :
       \E d \in [1..n -> PhotoShapes] :
         photos = [i \in 1..n |-> Candidate(shape, i, d[i][1], d[i][2])]
  /\ selected = 0
  /\ image = ""
  /\ AdapterIdle
  /\ EnrichIdle
  /\ HookIdle
  /\ PureIdle

SelectBest ==
  /\ image = ""
  /\ selected' = BestPhotoIndex(photos)
  /\ image' = getBestRestaurantImage(apiKey, photos)
  /\ UNCHANGED <<apiKey, photos, adapterVars, enrichVars, hookVars, pureVars>>

NextPhoto == SelectBest

SpecPhoto == InitPhoto /\ [][NextPhoto]_vars

(***************************************************************************)
(* Claims about the photo selection (SpecPhoto).                           *)
(***************************************************************************)
Area(p) == PhotoWidth(p) * PhotoHeight(p)
\* 1.2 <= width/height <= 2.0, and width/height < 1.2
RatioInBand(p) == 5 * PhotoWidth(p) >= 6 * PhotoHeight(p) /\ PhotoWidth(p) <= 2 * PhotoHeight(p)
RatioBelowBand(p) == 5 * PhotoWidth(p) < 6 * PhotoHeight(p)

\* the call has returned for a non-empty sequence of candidates with positive
\* dimensions, one of them landscape
SelectedAmongLandscape ==
  /\ image # ""
  /\ Len(photos) > 0
  /\ \A i \in 1..Len(photos) : PhotoWidth(photos[i]) > 0 /\ PhotoHeight(photos[i]) > 0
  /\ \E i \in 1..Len(photos) : RatioInBand(photos[i])

\* C9 as stated: the selected candidate is not below ratio 1.2 when a
\* landscape candidate has an area equal to or larger than its own.
C9_NoPortraitOverEqualOrLargerLandscape ==
  SelectedAmongLandscape =>
    ~ /\ RatioBelowBand(photos[selected])
      /\ \E j \in 1..Len(photos) :
           RatioInBand(photos[j]) /\ Area(photos[j]) >= Area(photos[selected])

\* C9 amended: the selected candidate is not below ratio 1.2 when a
\* landscape candidate has an area strictly larger than its own.
C9_NoPortraitOverLargerLandscape ==
  SelectedAmongLandscape =>
    ~ /\ RatioBelowBand(photos[selected])
      /\ \E j \in 1..Len(photos) :
           RatioInBand(photos[j]) /\ Area(photos[j]) > Area(photos[selected])

\* candidate i may replace the current best: both dimensions non-zero and
\* 1.2 <= width/height <= 2.0
Qualifies(i) ==
  /\ PhotoWidth(photos[i]) # 0
  /\ PhotoHeight(photos[i]) # 0
  /\ RatioInBand(photos[i])

\* C24: the photo selected is the one a single left-to-right scan selects:
\* the first candidate unless a later qualifying one has a strictly larger
\* area than the best before it; of qualifying candidates of equal area the
\* earlier is kept; the first is selected when none qualifies; no photos
\* give the placeholder.
C24_SingleScanSelection ==
  image # "" =>
    /\ Len(photos) = 0 => (selected = 0 /\ image = Placeholder)
    /\ Len(photos) > 0 =>
         /\ selected \in 1..Len(photos)
         /\ selected > 1 => Qualifies(selected)
         /\ \A j \in 1..(selected - 1) :
              (j = 1 \/ Qualifies(j)) => Area(photos[j]) < Area(photos[selected])
         /\ \A j \in (selected + 1)..Len(photos) :
              Qualifies(j) => Area(photos[j]) <= Area(photos[selected])
         /\ (\A j \in 2..Len(photos) : ~Qualifies(j)) => selected = 1

C24_Witness ==
  /\ image # ""
  /\ Len(photos) = 3
  /\ selected = 2
  /\ Qualifies(3)
  /\ Area(photos[3]) = Area(photos[2])
  /\ photos[3] # photos[2]
  /\ Area(photos[1]) > 0

\* C25: the photo selected never has a zero or missing width or height,
\* also when such a candidate stands first.
C25_SelectedHasDimensions ==
  (image # "" /\ Len(photos) > 0) =>
    /\ PhotoWidth(photos[selected]) # 0
    /\ PhotoHeight(photos[selected]) # 0

C9_Witness ==
  /\ SelectedAmongLandscape
  /\ Len(photos) = 3
  /\ selected = 3
  /\ RatioInBand(photos[3])
  /\ RatioBelowBand(photos[1])
  /\ RatioInBand(photos[2]) /\ Area(photos[2]) <= Area(photos[1])

(***************************************************************************)
(* Enrichment: enhanceRestaurantsWithPhotos on a phase-1 batch.  What      *)
(* getPlaceDetails settles with for a place id is fixed by the provider.   *)
(***************************************************************************)
\* longest phase-1 batch
MaxBatch == 2

\* runs of enhanceRestaurantsWithPhotos on one batch and its output
MaxRuns == 2

NoDetails == Details("", "", <<>>)

\* the settlements of getPlaceDetails(id): a rejection (session not
\* initialised, or both shapes failed), or the details of either shape
DetailsAnswers(id) ==
  { [rejects |-> TRUE, details |-> NoDetails] }
  \cup { [rejects |-> FALSE, details |-> DetailsFromNew(id, d)] : d \in NewDetails }
  \cup { [rejects |-> FALSE, details |-> DetailsFromLegacy(pl)] : pl \in LegacyPlaces }

\* the entities a search hands to phase 2
Phase1Entities(key) ==
  { NormalizeLegacy(key, pl) : pl \in LegacyPlaces }
  \cup { NormalizeNewNearby(key, pl) : pl \in NewPlaces }

\* if (restaurant.image !== '/placeholder.svg') return restaurant
NeedsPhotosAlways(restaurant) == TRUE
NeedsPhotos(restaurant) == restaurant.image = Placeholder

\* the entity returned once getPlaceDetails has resolved
EnhanceWithMark(key, restaurant, details) ==
  IF Len(details.photos) > 0
  THEN [restaurant EXCEPT !.image = getBestRestaurantImage(key, details.photos)]
  ELSE [restaurant EXCEPT !.name = @ \o "+"]
EnhanceWith(key, restaurant, details) ==
  IF Len(details.photos) > 0
  THEN [restaurant EXCEPT !.image = getBestRestaurantImage(key, details.photos)]
  ELSE restaurant

\* catch (error) { console.warn(...) }  return restaurant
OnDetailsRejectThrow(e) == [e EXCEPT !.pc = "rejected"]
OnDetailsRejectBlank(e) == [e EXCEPT !.pc = "resolved", !.out.image = ""]
OnDetailsReject(e) == [e EXCEPT !.pc = "resolved"]

\* restaurants.map(async ...) up to the first await of every element
StartEnrich ==
  /\ enrichOutcome = "none"
  /\ enrichOutcome' = "pending"
  /\ runNo' = runNo + 1
  /\ enrich' = [i \in 1..Len(batch) |->
                  IF NeedsPhotos(batch[i])
                  THEN [pc |-> "fetching", out |-> batch[i], fetches |-> 1]
                  ELSE [pc |-> "resolved", out |-> batch[i], fetches |-> 0]]
  /\ UNCHANGED <<apiKey, adapterVars, photoVars, pureVars, provider, batch,
                 enriched, firstIn, firstOut, hookVars>>

\* getPlaceDetails(restaurant.id) resolved for element i
DetailsResolve(i) ==
  /\ enrich[i].pc = "fetching"
  /\ ~provider[batch[i].id].rejects
  /\ enrich' = [enrich EXCEPT ![i] =
                  [@ EXCEPT !.pc = "resolved",
                            !.out = EnhanceWith(apiKey, batch[i],
                                                provider[batch[i].id].details)]]
  /\ UNCHANGED <<apiKey, adapterVars, photoVars, pureVars, provider, batch,
                 enrichOutcome, enriched, runNo, firstIn, firstOut, hookVars>>

\* getPlaceDetails(restaurant.id) rejected for element i
DetailsReject(i) ==
  /\ enrich[i].pc = "fetching"
  /\ provider[batch[i].id].rejects
  /\ enrich' = [enrich EXCEPT ![i] = OnDetailsReject(@)]
  /\ UNCHANGED <<apiKey, adapterVars, photoVars, pureVars, provider, batch,
                 enrichOutcome, enriched, runNo, firstIn, firstOut, hookVars>>

\* a join that resolves as soon as one element has settled
JoinFirst ==
  /\ enrichOutcome = "pending"
  /\ Len(enrich) = 0 \/ \E i \in 1..Len(enrich) : enrich[i].pc = "resolved"
  /\ enrichOutcome' = "resolved"
  /\ enriched' = [i \in 1..Len(enrich) |-> enrich[i].out]
  /\ UNCHANGED <<apiKey, adapterVars, photoVars, pureVars, provider, batch,
                 enrich, runNo, firstIn, firstOut, hookVars>>

\* Promise.all: rejects with the first rejection, resolves once every
\* element has, in the order of the input
Join ==
  /\ enrichOutcome = "pending"
  /\ IF \E i \in 1..Len(enrich) : enrich[i].pc = "rejected"
     THEN enrichOutcome' = "rejected" /\ enriched' = enriched
     ELSE /\ \A i \in 1..Len(enrich) : enrich[i].pc = "resolved"
          /\ enrichOutcome' = "resolved"
          /\ enriched' = [i \in 1..Len(enrich) |-> enrich[i].out]
  /\ UNCHANGED <<apiKey, adapterVars, photoVars, pureVars, provider, batch,
                 enrich, runNo, firstIn, firstOut, hookVars>>

\* searchRestaurants after `await enhanceRestaurantsWithPhotos(basicResults)`:
\* setRestaurants(enhancedResults), or the catch block, and finally
PhaseTwoSettles ==
  /\ loading
  /\ enrichOutcome \in {"resolved", "rejected"}
  /\ IF enrichOutcome = "resolved"
     THEN restaurants' = enriched /\ error' = error
     ELSE restaurants' = <<>> /\ error' = "Failed to fetch restaurants"
  /\ loading' = FALSE
  /\ UNCHANGED <<apiKey, adapterVars, photoVars, pureVars, enrichVars, searches,
                 issued, lastWriter, hook, cleared>>

\* a duplicate trigger: searchRestaurants runs again and its phase 1 hands
\* phase 2 the same batch again, or the entities the earlier run produced
Retrigger(again) ==
  /\ ~loading
  /\ enrichOutcome = "resolved"
  /\ runNo < MaxRuns
  /\ firstIn' = IF runNo = 1 THEN batch ELSE firstIn
  /\ firstOut' = IF runNo = 1 THEN enriched ELSE firstOut
  /\ batch' = IF again = "same" THEN batch ELSE enriched
  /\ enrich' = <<>>
  /\ enrichOutcome' = "none"
  /\ enriched' = <<>>
  /\ loading' = TRUE
  /\ error' = ""
  /\ restaurants' = batch'
  /\ UNCHANGED <<apiKey, adapterVars, photoVars, pureVars, provider, runNo,
                 searches, issued, lastWriter, hook, cleared>>

InitEnrich ==
  /\ apiKey = "KEY"
  /\ AdapterIdle
  /\ PhotoIdle
  /\ PureIdle
  /\ runNo = 0
  /\ firstIn = <<>>
  /\ firstOut = <<>>
  /\ \E f \in [PlaceIds -> BOOLEAN \X (NewDetails \cup LegacyPlaces)] :
       provider = [id \in PlaceIds |->
                     IF f[id][1] THEN [rejects |-> TRUE, details |-> NoDetails]
                     ELSE [rejects |-> FALSE,
                           details |-> IF f[id][2] \in NewDetails
                                       THEN DetailsFromNew(id, f[id][2])
                                       ELSE DetailsFromLegacy(f[id][2])]]
  /\ \E n \in 0..MaxBatch : \E b \in [1..n -> Phase1Entities("KEY")] : batch = b
  /\ enrich = <<>>
  /\ enrichOutcome = "none"
  /\ enriched = <<>>
  \* the hook is at `await enhanceRestaurantsWithPhotos(basicResults)`
  /\ restaurants = batch
  /\ loading = TRUE
  /\ error = ""
  /\ searches = <<>>
  /\ issued = 0
  /\ lastWriter = 0
  /\ hook = "nearby"
  /\ cleared = FALSE

NextEnrich ==
  \/ StartEnrich
  \/ \E i \in 1..Len(enrich) : DetailsResolve(i)
  \/ \E i \in 1..Len(enrich) : DetailsReject(i)
  \/ Join
  \/ PhaseTwoSettles
  \/ \E again \in {"same", "output"} : Retrigger(again)

SpecEnrich == InitEnrich /\ [][NextEnrich]_vars

(***************************************************************************)
(* Claims about the enrichment (SpecEnrich).                               *)
(***************************************************************************)
\* element i needs photos and the provider has some for it
Enrichable(i) ==
  /\ batch[i].image = Placeholder
  /\ ~provider[batch[i].id].rejects
  /\ Len(provider[batch[i].id].details.photos) > 0

\* C5: whatever getPlaceDetails settles with for each entity, the batch
\* enrichment never rejects and resolves with a sequence as long as its
\* input and with the same ids in the same places; an entity whose details
\* carry photos is enriched also when the details of another were rejected.
C5_EnrichmentKeepsShape ==
  /\ enrichOutcome # "rejected"
  /\ enrichOutcome = "resolved" =>
       /\ Len(enriched) = Len(batch)
       /\ \A i \in 1..Len(batch) :
            /\ enriched[i].id = batch[i].id
            /\ Enrichable(i) => enriched[i].image # Placeholder
  /\ (enrichOutcome = "pending" /\ \A i \in 1..Len(enrich) : enrich[i].pc # "fetching")
       => ENABLED Join

C5_Witness ==
  /\ enrichOutcome = "resolved"
  /\ Len(batch) = 2
  /\ batch[1].image = Placeholder /\ provider[batch[1].id].rejects
  /\ Enrichable(2)
  /\ enriched[2].image # batch[2].image
  /\ enriched[1] = batch[1]

\* C10: an entity with the placeholder image whose details carry a photo
\* comes back from enhanceRestaurantWithPhotos with the image and the
\* photoAttributions of the photo the selection heuristic picks.
C10_ImageAndAttributionsReplaced ==
  \A i \in 1..Len(enrich) :
    (enrich[i].pc = "resolved" /\ Enrichable(i)) =>
      LET phs == provider[batch[i].id].details.photos IN
      /\ enrich[i].out.image = getBestRestaurantImage(apiKey, phs)
      /\ enrich[i].out.photoAttributions = phs[BestPhotoIndex(phs)].attributions

\* C11: an entity whose image is not the placeholder gets no getPlaceDetails
\* request in phase 2 and comes out of it with every field unchanged.
C11_NonPlaceholderPassedThrough ==
  /\ \A i \in 1..Len(enrich) :
       batch[i].image # Placeholder =>
         enrich[i].fetches = 0 /\ enrich[i].pc = "resolved" /\ enrich[i].out = batch[i]
  /\ enrichOutcome = "resolved" =>
       \A i \in 1..Len(batch) :
         batch[i].image # Placeholder => enriched[i] = batch[i]

C11_Witness ==
  /\ enrichOutcome = "resolved"
  /\ Len(batch) = 2
  /\ batch[1].image # Placeholder
  /\ ~provider[batch[1].id].rejects
  /\ Len(provider[batch[1].id].details.photos) > 0
  /\ enriched[1] = batch[1]
  /\ enrich[1].fetches = 0
  /\ Enrichable(2)
  /\ enriched[2] # batch[2]

\* getPlaceDetails failed for element i, which had the placeholder image
DetailsFailedFor(i) ==
  /\ batch[i].image = Placeholder
  /\ provider[batch[i].id].rejects
  /\ enrich[i].pc # "fetching"

\* C12: when getPlaceDetails fails for a placeholder entity, its
\* enhanceRestaurantWithPhotos resolves with the entity as it was, the batch
\* enrichment does not reject and the hook's error state stays clear.
C12_DetailsFailureRecovered ==
  /\ \A i \in 1..Len(enrich) :
       DetailsFailedFor(i) => enrich[i].pc = "resolved" /\ enrich[i].out = batch[i]
  /\ enrichOutcome # "rejected"
  /\ error = ""
  /\ (enrichOutcome = "resolved" /\ ~loading) => restaurants = enriched

C12_Witness ==
  /\ enrichOutcome = "resolved"
  /\ ~loading
  /\ Len(batch) = 2
  /\ DetailsFailedFor(1)
  /\ Enrichable(2)
  /\ restaurants[1] = batch[1]
  /\ restaurants[2] # batch[2]
  /\ error = ""

\* C13: with what getPlaceDetails yields for each id fixed, a second run of
\* enhanceRestaurantsWithPhotos on the same batch resolves with the same
\* sequence as the first, and a run on the output of a run resolves with
\* that output.
C13_EnrichmentIdempotent ==
  (runNo >= 2 /\ enrichOutcome = "resolved") =>
    /\ batch = firstIn => enriched = firstOut
    /\ batch = firstOut => enriched = firstOut

C13_Witness ==
  /\ runNo = 2
  /\ enrichOutcome = "resolved"
  /\ batch = firstOut
  /\ firstOut # firstIn
  /\ \E i \in 1..Len(batch) :
       /\ batch[i].image = Placeholder
       /\ ~provider[batch[i].id].rejects
       /\ enrich[i].fetches = 1
  /\ enriched = batch

\* every per-entity enrichment of the batch has settled
AllEnrichmentsSettled ==
  /\ Len(enrich) = Len(batch)
  /\ \A i \in 1..Len(enrich) : enrich[i].pc \in {"resolved", "rejected"}

\* C26: within one query the phase-1 batch is in the result state before
\* and while the detail requests of phase 2 are out; the result state is
\* written again only once, with the enriched batch, after every per-entity
\* enrichment has settled, in whatever order; loading is true until then.
C26_TwoPhaseOrder ==
  /\ [](/\ loading => restaurants = batch
        /\ (\E i \in 1..Len(enrich) : enrich[i].pc = "fetching") => loading
        /\ enrichOutcome \in {"none", "pending"} => loading
        /\ ~loading => (AllEnrichmentsSettled /\ restaurants = enriched))
  /\ [][/\ (loading /\ loading') => restaurants' = restaurants
        /\ (loading /\ ~loading') =>
             /\ AllEnrichmentsSettled
             /\ restaurants' = [i \in 1..Len(batch) |-> enrich[i].out]]_vars

C26_Witness ==
  /\ ~loading
  /\ runNo = 1
  /\ Len(batch) = 2
  /\ Enrichable(1)
  /\ Enrichable(2)
  /\ restaurants = enriched
  /\ restaurants[1] # batch[1]
  /\ restaurants[2] # batch[2]

(***************************************************************************)
(* useNearbyRestaurants: one mounted hook whose searchRestaurants is       *)
(* called by the location effect, by refetch and by searchWithFilters      *)
(* (handleFilterChange), also while an earlier call is still in flight.    *)
(* issued, the start number of a call and lastWriter observe the order of  *)
(* the calls; the code holds no such number.                               *)
(***************************************************************************)
\* searchRestaurants calls started during one run
MaxStarts == 3

Slots == {"s1", "s2"}

\* the hooks with a query: useNearbyRestaurants, usePlaceSearch,
\* useLocationSearch, usePlaceDetails
HookKinds == {"nearby", "places", "locations", "details"}
\* those that write the phase-1 batch and then the enriched one
TwoPhase == {"nearby", "places"}
\* those that return early on a blank query and offer clearResults
Clearable == {"places", "locations"}

IdleSearch == [pc |-> "idle", gen |-> 0, basic |-> <<>>, result |-> <<>>, err |-> ""]

\* what searchNearbyRestaurants may resolve with, and reject with
HookBatches(key) ==
  { <<>> } \cup { <<e>> : e \in Phase1Entities(key) }
SearchErrors ==
  { "Google Maps API failed to load", "Places API error: " \o StatusZero,
    "Places API error: REQUEST_DENIED" }

\* what the adapter operation of each hook may reject with
SearchErrorsOf(kind) ==
  CASE kind = "nearby" -> SearchErrors
    [] kind = "places" ->
         { "Google Maps API failed to load", "Text Search API error: REQUEST_DENIED" }
    [] kind = "locations" ->
         { "Google Maps API failed to load", "Geocoding API error: REQUEST_DENIED" }
    [] kind = "details" ->
         { "Google Maps API failed to load", "Place Details API error: REQUEST_DENIED" }

\* what searchLocationsByText may resolve with
HookLocations ==
  { <<>> } \cup { <<LocationFromGeo(g)>> : g \in GeoResults }

\* what enhanceRestaurantsWithPhotos may resolve with for a batch
EnhancedBatches(key, b) ==
  { [i \in 1..Len(b) |->
       IF NeedsPhotos(b[i]) /\ ~f[i].rejects
       THEN EnhanceWith(key, b[i], f[i].details) ELSE b[i]] :
    f \in [1..Len(b) -> UNION { DetailsAnswers(id) : id \in PlaceIds }] }

\* the query function of the hook up to the await of its adapter operation:
\* setLoading(true); setError(null)
StartSearch(s) ==
  /\ searches[s].pc \in {"idle", "done"}
  /\ issued < MaxStarts
  /\ issued' = issued + 1
  /\ loading' = TRUE
  /\ error' = ""
  /\ cleared' = FALSE
  /\ searches' = [searches EXCEPT ![s] =
                    [IdleSearch EXCEPT !.pc = "phase1", !.gen = issued + 1]]
  /\ UNCHANGED <<apiKey, adapterVars, photoVars, pureVars, enrichVars, restaurants,
                 lastWriter, hook>>

\* searchPlaces / searchLocations with a blank query:
\* if (!query.trim()) { setResults([]); return; }
EmptyQuery ==
  /\ hook \in Clearable
  /\ restaurants' = <<>>
  /\ cleared' = TRUE
  /\ lastWriter' = 0
  /\ UNCHANGED <<apiKey, adapterVars, photoVars, pureVars, enrichVars, loading,
                 error, searches, issued, hook>>

\* clearResults: setResults([]); setError(null)
ClearResults ==
  /\ hook \in Clearable
  /\ restaurants' = <<>>
  /\ error' = ""
  /\ cleared' = TRUE
  /\ lastWriter' = 0
  /\ UNCHANGED <<apiKey, adapterVars, photoVars, pureVars, enrichVars, loading,
                 searches, issued, hook>>

\* basicResults arrive: setRestaurants(basicResults), then
\* `await enhanceRestaurantsWithPhotos(basicResults)`
Phase1Resolves(s) ==
  /\ hook \in TwoPhase
  /\ searches[s].pc = "phase1"
  /\ \E b \in HookBatches(apiKey) :
       /\ restaurants' = b
       /\ searches' = [searches EXCEPT ![s] = [@ EXCEPT !.pc = "phase2", !.basic = b]]
  /\ lastWriter' = searches[s].gen
  /\ UNCHANGED <<apiKey, adapterVars, photoVars, pureVars, enrichVars, loading,
                 error, issued, hook, cleared>>

\* the adapter operation of useLocationSearch / usePlaceDetails resolved:
\* setResults(locations) / return details, and finally
SearchResolves(s) ==
  /\ hook \notin TwoPhase
  /\ searches[s].pc = "phase1"
  /\ IF hook = "locations"
     THEN \E r \in HookLocations :
            /\ restaurants' = r
            /\ searches' = [searches EXCEPT ![s] =
                              [@ EXCEPT !.pc = "done", !.basic = r, !.result = r]]
     ELSE /\ restaurants' = restaurants
          /\ searches' = [searches EXCEPT ![s] = [@ EXCEPT !.pc = "done"]]
  /\ loading' = FALSE
  /\ lastWriter' = searches[s].gen
  /\ UNCHANGED <<apiKey, adapterVars, photoVars, pureVars, enrichVars, error,
                 issued, hook, cleared>>

\* the adapter operation rejected: a catch that sets no error
Phase1RejectsSilently(s) ==
  /\ searches[s].pc = "phase1"
  /\ \E msg \in SearchErrorsOf(hook) :
       searches' = [searches EXCEPT ![s] = [@ EXCEPT !.pc = "done", !.err = msg]]
  /\ restaurants' = <<>>
  /\ loading' = FALSE
  /\ lastWriter' = searches[s].gen
  /\ UNCHANGED <<apiKey, adapterVars, photoVars, pureVars, enrichVars, error,
                 issued, hook, cleared>>

\* the adapter operation rejected: catch and finally
Phase1Rejects(s) ==
  /\ searches[s].pc = "phase1"
  /\ \E msg \in SearchErrorsOf(hook) :
       /\ error' = msg
       /\ searches' = [searches EXCEPT ![s] = [@ EXCEPT !.pc = "done", !.err = msg]]
  /\ restaurants' = IF hook = "details" THEN restaurants ELSE <<>>
  /\ loading' = FALSE
  /\ lastWriter' = searches[s].gen
  /\ UNCHANGED <<apiKey, adapterVars, photoVars, pureVars, enrichVars, issued,
                 hook, cleared>>

\* enhancedResults arrive: setRestaurants(enhancedResults) and finally
Phase2Resolves(s) ==
  /\ searches[s].pc = "phase2"
  /\ \E e \in EnhancedBatches(apiKey, searches[s].basic) :
       /\ restaurants' = e
       /\ searches' = [searches EXCEPT ![s] = [@ EXCEPT !.pc = "done", !.result = e]]
  /\ loading' = FALSE
  /\ lastWriter' = searches[s].gen
  /\ UNCHANGED <<apiKey, adapterVars, photoVars, pureVars, enrichVars, error,
                 issued, hook, cleared>>

InitHook ==
  /\ apiKey = "KEY"
  /\ AdapterIdle
  /\ PhotoIdle
  /\ EnrichIdle
  /\ PureIdle
  /\ hook \in HookKinds
  /\ cleared = FALSE
  /\ restaurants = <<>>
  /\ loading = FALSE
  /\ error = ""
  /\ searches = [s \in Slots |-> IdleSearch]
  /\ issued = 0
  /\ lastWriter = 0

NextHook ==
  \/ \E s \in Slots : StartSearch(s)
  \/ EmptyQuery
  \/ ClearResults
  \/ \E s \in Slots : Phase1Resolves(s)
  \/ \E s \in Slots : SearchResolves(s)
  \/ \E s \in Slots : Phase1Rejects(s)
  \/ \E s \in Slots : Phase2Resolves(s)

SpecHook == InitHook /\ [][NextHook]_vars

(***************************************************************************)
(* Claims about useNearbyRestaurants (SpecHook).                           *)
(***************************************************************************)
AllSearchesSettled == \A s \in Slots : searches[s].pc \in {"idle", "done"}

\* C6: once a later searchRestaurants call has written its result, no
\* earlier call writes restaurants/error any more; when every call has
\* settled the state holds the outcome of the call started last.
C6_LatestSearchWins ==
  hook = "nearby" =>
    /\ \A s \in Slots :
         searches[s].pc \in {"phase2", "done"} => lastWriter >= searches[s].gen
    /\ (AllSearchesSettled /\ issued > 0) =>
         \E s \in Slots :
           /\ searches[s].gen = issued
           /\ restaurants = searches[s].result
           /\ error = searches[s].err

(***************************************************************************)
(* RadarWithGoogleMaps: the data source selection and the list filter.     *)
(***************************************************************************)
\* the sample list of '@/data/mockData'
mockRestaurants ==
  << Restaurant("mock-1", "Mock Thai", "Thai", 2, Placeholder, <<>>),
     Restaurant("mock-2", "Mock Grill", "Steakhouse", 3, Placeholder, <<>>) >>

\* useGoogleMaps ? googleRestaurants : mockRestaurants
RadarRestaurants(useGoogleMaps, googleRestaurants) ==
  IF useGoogleMaps THEN googleRestaurants ELSE mockRestaurants

\* useGoogleMaps ? googleError : null
RadarDataError(useGoogleMaps, googleError) ==
  IF useGoogleMaps THEN googleError ELSE ""

\* the ids of the filter buttons and the cuisine label each one is found in
RadarFilters == {"all", "steakhouse", "thai", "japanese", "canadian"}
FilterLabel(f) ==
  CASE f = "steakhouse" -> "Steakhouse"
    [] f = "thai" -> "Thai"
    [] f = "japanese" -> "Japanese"
    [] f = "canadian" -> "Canadian"
    [] OTHER -> ""

\* restaurants.filter(...): the cuisine test of the selected filter; every
\* record is taken to lie within the selected distance
filteredRestaurants(list, selectedFilter) ==
  LET Keeps(r) == selectedFilter = "all" \/ r.cuisine = FilterLabel(selectedFilter)
  IN SelectSeq(list, Keeps)

(***************************************************************************)
(* Claims about the hooks and the radar screen (SpecHook).                 *)
(***************************************************************************)
\* the query started last, if it is still recorded
Latest(s) == searches[s].gen = issued /\ issued > 0

\* C21: in every hook, when the adapter call of the query started last has
\* rejected and the query has settled, error is a non-null message (until
\* the results are cleared or a new query starts); results empty, error null
\* and loading false together occur only when no query was made, the query
\* was cleared, or the adapter resolved with an empty sequence.
C21_RejectionSurfaces ==
  /\ \A s \in Slots :
       (Latest(s) /\ searches[s].pc = "done" /\ searches[s].err # "" /\ ~cleared)
         => error # ""
  /\ (hook # "details" /\ restaurants = <<>> /\ error = "" /\ ~loading) =>
       \/ issued = 0
       \/ cleared
       \/ \E s \in Slots :
            /\ searches[s].gen = lastWriter
            /\ searches[s].err = ""
            /\ searches[s].basic = <<>>

C21_Witness ==
  /\ hook = "places"
  /\ ~loading
  /\ restaurants = <<>>
  /\ \E s \in Slots :
       /\ Latest(s)
       /\ searches[s].pc = "done"
       /\ searches[s].err = "Text Search API error: REQUEST_DENIED"
       /\ error = searches[s].err
  /\ \E s \in Slots : searches[s].pc = "phase2"

\* C23: with the live-data toggle on, when the nearby query has ended in an
\* error the list on the radar screen is the mock list under the selected
\* filter.
C23_MockFallbackOnError ==
  (hook = "nearby" /\ ~loading /\ RadarDataError(TRUE, error) # "") =>
    \A f \in RadarFilters :
      filteredRestaurants(RadarRestaurants(TRUE, restaurants), f)
        = filteredRestaurants(mockRestaurants, f)

\* C29: in useNearbyRestaurants and usePlaceSearch, loading is true whenever
\* a query of the hook has not finished.
C29_LoadingWhileInFlight ==
  hook \in TwoPhase =>
    ((\E s \in Slots : searches[s].pc \in {"phase1", "phase2"}) => loading)

\* C30: in useLocationSearch, when every search has settled, results are
\* those of the search started last, or empty if the input was cleared or
\* emptied after it; an older search that completes after a newer one has
\* written leaves results as they are.
C30_StaleLocationSearchIgnored ==
  hook = "locations" =>
    /\ \A s \in Slots : searches[s].pc = "done" => lastWriter >= searches[s].gen
    /\ (AllSearchesSettled /\ issued > 0) =>
         IF cleared THEN restaurants = <<>>
         ELSE \E s \in Slots :
                /\ Latest(s)
                /\ restaurants = searches[s].result
                /\ error = searches[s].err

====
